---- MODULE Spec2Model ----
(***************************************************************************)
(* Verification model of arcium-agentic-wallet.                            *)
(*                                                                         *)
(*  - agentic_wallet_mxe program: sign_transaction / verify_agent_signature *)
(*    submit a computation to the Arcium cluster; the matching callbacks    *)
(*    verify the cluster's output and emit an event.                        *)
(*  - circuits: distribute_key, threshold_sign, execute_encrypted_trade.    *)
(*                                                                         *)
(* The handlers are translated from the Rust source.  queue_computation,    *)
(* verify_output and the invocation of callbacks belong to the Arcium       *)
(* runtime, whose code is not part of the sources; they are modelled from   *)
(* the specification (sections 4.4 and 5).                                  *)
(***************************************************************************)
EXTENDS Integers, Sequences, FiniteSets, TLC

\* ------------------------------------------------------------------------
\* Bounds
\* ------------------------------------------------------------------------
MaxOffsets == 2

MaxNodes == 3

MaxAmount == 2

\* lamports every user starts with
InitialLamports == 3

\* deposits are followed while their sum stays within this total
MaxDeposited == 3

\* the clock is followed over this many timeout windows
MaxPeriods == 1

\* ------------------------------------------------------------------------
\* Program constants
\* ------------------------------------------------------------------------
MSG_LEN == 32

SIG_LEN == 64

NONCE_LEN == 16

NUM_CALLBACK_TXS == 1

CU_PRICE_MICRO == 0

VALID_ACTION_MAX == 3

INITIAL_RISK_SCORE == 50

MAX_RISK_SCORE == 100

RISK_LIMIT == 80

TIMEOUT_SECS == 3600

\* ------------------------------------------------------------------------
\* Byte arrays
\* ------------------------------------------------------------------------
Fill(n, b) == [i \in 1..n |-> b]

Ramp(n) == [i \in 1..n |-> i % 256]

Offsets == 1..MaxOffsets

Messages == {Fill(MSG_LEN, 0), Ramp(MSG_LEN)}

OneTimePubKeys == {Fill(MSG_LEN, 1), Fill(MSG_LEN, 2)}

OneTimeNonces == {7}

VerifyingKeyLo == Fill(MSG_LEN, 3)

VerifyingKeyHi == Fill(MSG_LEN, 4)

ObserverPubKey == Fill(MSG_LEN, 5)

ObserverNonce == 9

AgentSignature == Fill(SIG_LEN, 6)

\* little-endian bytes of an unsigned integer (u128::to_le_bytes)
RECURSIVE to_le_bytes(_, _)
to_le_bytes(n, len) ==
    IF len = 0 THEN <<>> ELSE <<n % 256>> \o to_le_bytes(n \div 256, len - 1)

\* ------------------------------------------------------------------------
\* Cluster outputs (SignedComputationOutputs<T>)
\* ------------------------------------------------------------------------
ClusterKey == "cluster_key"

ForgedKey == "forged_key"

SignPayloads ==
    { [field_0 |-> Ramp(MSG_LEN), field_1 |-> Fill(MSG_LEN, 9)],
      [field_0 |-> Fill(MSG_LEN, 0), field_1 |-> Fill(MSG_LEN, 0)] }

VerifyPayloads ==
    { [ciphertexts |-> <<Fill(MSG_LEN, 1)>>, nonce |-> 258] }

NoPayload == [none |-> TRUE]

\* verified results, one result carrying a proof made with another key, and
\* the cluster's own abort signal
Outputs(payloads) ==
    { [kind |-> "Success", proof |-> ClusterKey, payload |-> p] : p \in payloads }
    \cup { [kind |-> "Success", proof |-> ForgedKey,
            payload |-> CHOOSE p \in payloads : TRUE] }
    \cup { [kind |-> "Failure", proof |-> ClusterKey, payload |-> NoPayload] }

SignOutputs == Outputs(SignPayloads)

VerifyOutputs == Outputs(VerifyPayloads)

\* ------------------------------------------------------------------------
\* State
\* ------------------------------------------------------------------------
VARIABLES
    sign_pda_bump,   \* sign_pda_account.bump (0 = account not yet initialised)
    computation,     \* request ledger: offset -> queued computation or NoComp
    status,          \* offset -> "None" | "Queued" | "Dispatched" | "Completed" | "Aborted"
    events,          \* offset -> events logged by the callback transaction of that computation
    callback_log,    \* offset -> "none" | "verified" | "unverified": whether the result
                     \* handed to its callback passed verify_output
    accepted_count,  \* offset -> number of submits that returned Ok
    first_submitted, \* the offset of the first accepted submit (0 = none yet)
    ret,             \* what the last handler invocation returned
    key_shares,      \* circuits: the key shares the cluster holds (last distribute_key)
    call,            \* circuits: the last circuit instruction call and its result
    vault,           \* agent-vault: the Vault account
    agent_state,     \* agent-vault: the AgentState account
    lamports,        \* agent-vault: account -> lamports
    clock,           \* agent-vault: Clock::get()?.unix_timestamp
    vault_ret,       \* agent-vault: what the last instruction returned
    deposited,       \* agent-vault: sum of the amounts of the deposits that returned Ok
    withdrawn        \* agent-vault: sum of the amounts of the withdrawals that returned Ok

vars == <<sign_pda_bump, computation, status, events, callback_log,
          accepted_count, first_submitted, ret, key_shares, call,
          vault, agent_state, lamports, clock, vault_ret, deposited, withdrawn>>

vault_vars == <<vault, agent_state, lamports, clock, vault_ret, deposited, withdrawn>>

mxe_vars == <<sign_pda_bump, computation, status, events, callback_log,
              accepted_count, first_submitted, ret>>

NoComp == [args |-> <<>>, callback |-> "none", num_callback_txs |-> 0, cu_price |-> 0]

NoCall == [op |-> "none"]

NoShares == [threshold |-> 0, total_nodes |-> 0, shares |-> <<>>]

SignPdaBump == 254

InFlight == {"Queued", "Dispatched"}

Terminal == {"Completed", "Aborted"}

\* ------------------------------------------------------------------------
\* agent-vault: accounts
\* ------------------------------------------------------------------------
Users == {"alice", "bob"}

VaultKey == "vault"

AgentStateKey == "agent_state"

Accounts == Users \cup {VaultKey, AgentStateKey}

\* rent paid by the payer of an `init` account
VaultRent == 1

AgentStateRent == 1

\* the largest u64, scaled down: it lies above the whole lamport supply, as
\* 2^64 - 1 lies above the supply of the ledger
U64_MAX == Cardinality(Users) * InitialLamports + 1

NoVault == [initialized |-> FALSE, owner |-> "none", balance |-> 0]

NoAgentState ==
    [initialized |-> FALSE, owner |-> "none", risk_score |-> 0,
     execution_enabled |-> FALSE, last_action_timestamp |-> 0]

RiskScores == {RISK_LIMIT, RISK_LIMIT + 1, MAX_RISK_SCORE, MAX_RISK_SCORE + 1}

Times ==
    { t \in UNION { {k * TIMEOUT_SECS - 1, k * TIMEOUT_SECS, k * TIMEOUT_SECS + 1} :
                       k \in 0..MaxPeriods } : t >= 0 }

InitVaultAccounts ==
    /\ vault = NoVault
    /\ agent_state = NoAgentState
    /\ lamports = [a \in Accounts |-> IF a \in Users THEN InitialLamports ELSE 0]
    /\ clock = 0
    /\ vault_ret = [instruction |-> "none", amount |-> 0, result |-> "none"]
    /\ deposited = 0
    /\ withdrawn = 0

\* ------------------------------------------------------------------------
\* ArgBuilder
\* ------------------------------------------------------------------------
ArgBuilder_new == <<>>

plaintext_u8(builder, byte) == Append(builder, [kind |-> "plaintext_u8", v |-> byte])

plaintext_u128(builder, n) == Append(builder, [kind |-> "plaintext_u128", v |-> n])

x25519_pubkey(builder, key) == Append(builder, [kind |-> "x25519_pubkey", v |-> key])

encrypted_u128(builder, ct) == Append(builder, [kind |-> "encrypted_u128", v |-> ct])

arcis_ed25519_signature(builder, sig) ==
    Append(builder, [kind |-> "arcis_ed25519_signature", v |-> sig])

\* for byte in message { builder = builder.plaintext_u8(byte); }
RECURSIVE plaintext_bytes(_, _)
plaintext_bytes(builder, bytes) ==
    IF bytes = <<>> THEN builder
    ELSE plaintext_bytes(plaintext_u8(builder, Head(bytes)), Tail(bytes))

\* ------------------------------------------------------------------------
\* Arcium runtime
\* ------------------------------------------------------------------------
Ledger == [status |-> status, computation |-> computation]

\* variant: the computation account is written without checking that the
\* offset is unused
queue_computation_overwrite(led, computation_offset, args, callback, num_callback_txs, cu_price) ==
    [ok |-> TRUE, err |-> "none",
     led |-> [status |-> [led.status EXCEPT ![computation_offset] = "Queued"],
              computation |->
                  [led.computation EXCEPT ![computation_offset] =
                      [args |-> args, callback |-> callback,
                       num_callback_txs |-> num_callback_txs,
                       cu_price |-> cu_price]]]]

\* queue_computation: stores the arguments and the callback under the
\* caller-provided offset; an offset that is already known is rejected.
queue_computation(led, computation_offset, args, callback, num_callback_txs, cu_price) ==
    IF led.status[computation_offset] # "None"
    THEN [ok |-> FALSE, err |-> "DuplicateId", led |-> led]
    ELSE [ok |-> TRUE, err |-> "none",
          led |-> [status |-> [led.status EXCEPT ![computation_offset] = "Queued"],
                   computation |->
                       [led.computation EXCEPT ![computation_offset] =
                           [args |-> args, callback |-> callback,
                            num_callback_txs |-> num_callback_txs,
                            cu_price |-> cu_price]]]]

\* SignedComputationOutputs::verify_output: the payload is released only when
\* the computation succeeded and its proof verifies under the cluster's key.
verify_output(output, cluster_key) ==
    IF output.kind = "Success" /\ output.proof = cluster_key
    THEN [ok |-> TRUE, value |-> output.payload]
    ELSE [ok |-> FALSE, value |-> NoPayload]

\* the state a request moves to when its callback has returned
resolve_keep(result) == "Dispatched"

resolve_pending(result) == IF result = "Ok" THEN "Completed" ELSE "Dispatched"

resolve(result) == IF result = "Ok" THEN "Completed" ELSE "Aborted"

\* a result is handed to the callback only while the request is Dispatched
deliverable_early(st, computation_offset) == st[computation_offset] \in InFlight

deliverable(st, computation_offset) == st[computation_offset] = "Dispatched"

\* the ledger after the callback of one request has returned: the request
\* reaches its terminal state and its entry is released
settle_abort_all(led, computation_offset, result) ==
    LET next == resolve(result)
    IN  [status |-> [o \in Offsets |->
                        IF o = computation_offset THEN next
                        ELSE IF next = "Aborted" /\ led.status[o] \in InFlight
                             THEN "Aborted" ELSE led.status[o]],
         computation |-> [o \in Offsets |->
                        IF o = computation_offset \/
                           (next = "Aborted" /\ led.status[o] \in InFlight)
                        THEN NoComp ELSE led.computation[o]]]

settle(led, computation_offset, result) ==
    LET next == resolve(result)
    IN  [status |-> [led.status EXCEPT ![computation_offset] = next],
         computation |-> [led.computation EXCEPT ![computation_offset] =
                             IF next \in Terminal THEN NoComp ELSE @]]

\* ------------------------------------------------------------------------
\* agentic_wallet_mxe handlers
\* ------------------------------------------------------------------------
sign_transaction(led, computation_offset, message) ==
    LET args == plaintext_bytes(ArgBuilder_new, message)
        q == queue_computation(led, computation_offset, args,
                               "sign_transaction_callback",
                               NUM_CALLBACK_TXS, CU_PRICE_MICRO)
    IN  IF q.ok THEN [result |-> "Ok", led |-> q.led, bump_written |-> TRUE]
        ELSE [result |-> q.err, led |-> led, bump_written |-> FALSE]

verify_agent_signature(led, computation_offset, one_time_pub_key, one_time_nonce, verifying_key_enc_lo, verifying_key_enc_hi, message, signature, observer_pub_key, observer_nonce) ==
    LET b0 == encrypted_u128(
                  encrypted_u128(
                      plaintext_u128(x25519_pubkey(ArgBuilder_new, one_time_pub_key),
                                     one_time_nonce),
                      verifying_key_enc_lo),
                  verifying_key_enc_hi)
        b1 == plaintext_bytes(b0, message)
        args == plaintext_u128(
                    x25519_pubkey(arcis_ed25519_signature(b1, signature),
                                  observer_pub_key),
                    observer_nonce)
        q == queue_computation(led, computation_offset, args,
                               "verify_agent_signature_callback",
                               NUM_CALLBACK_TXS, CU_PRICE_MICRO)
    IN  IF q.ok THEN [result |-> "Ok", led |-> q.led, bump_written |-> TRUE]
        ELSE [result |-> q.err, led |-> led, bump_written |-> FALSE]

TransactionSignedEvent(signature) ==
    [name |-> "TransactionSignedEvent", signature |-> signature]

SignatureVerifiedEvent(is_valid, nonce) ==
    [name |-> "SignatureVerifiedEvent", is_valid |-> is_valid, nonce |-> nonce]

\* variant: the output is unpacked without verify_output
sign_transaction_callback_unchecked(output) ==
    IF output.kind = "Success"
    THEN LET r_encoded == output.payload.field_0
             s == output.payload.field_1
             signature == [i \in 1..SIG_LEN |->
                              IF i <= MSG_LEN THEN r_encoded[i] ELSE s[i - MSG_LEN]]
         IN  [result |-> "Ok", emitted |-> <<TransactionSignedEvent(signature)>>]
    ELSE [result |-> "AbortedComputation", emitted |-> <<>>]

\* variant: the zero-initialised signature buffer is emitted before the error
\* is returned
sign_transaction_callback_partial(output) ==
    LET v == verify_output(output, ClusterKey)
    IN  IF v.ok
        THEN LET r_encoded == v.value.field_0
                 s == v.value.field_1
                 signature == [i \in 1..SIG_LEN |->
                                  IF i <= MSG_LEN THEN r_encoded[i] ELSE s[i - MSG_LEN]]
             IN  [result |-> "Ok", emitted |-> <<TransactionSignedEvent(signature)>>]
        ELSE [result |-> "AbortedComputation",
              emitted |-> <<TransactionSignedEvent(Fill(SIG_LEN, 0))>>]

\* variant: S is copied in front of R
sign_transaction_callback_swapped(output) ==
    LET v == verify_output(output, ClusterKey)
    IN  IF v.ok
        THEN LET r_encoded == v.value.field_0
                 s == v.value.field_1
                 signature == [i \in 1..SIG_LEN |->
                                  IF i <= MSG_LEN THEN s[i] ELSE r_encoded[i - MSG_LEN]]
             IN  [result |-> "Ok", emitted |-> <<TransactionSignedEvent(signature)>>]
        ELSE [result |-> "AbortedComputation", emitted |-> <<>>]

sign_transaction_callback(output) ==
    LET v == verify_output(output, ClusterKey)
    IN  IF v.ok
        THEN LET r_encoded == v.value.field_0
                 s == v.value.field_1
                 signature == [i \in 1..SIG_LEN |->
                                  IF i <= MSG_LEN THEN r_encoded[i] ELSE s[i - MSG_LEN]]
             IN  [result |-> "Ok", emitted |-> <<TransactionSignedEvent(signature)>>]
        ELSE [result |-> "AbortedComputation", emitted |-> <<>>]

verify_agent_signature_callback(output) ==
    LET v == verify_output(output, ClusterKey)
    IN  IF v.ok
        THEN LET o == v.value
             IN  [result |-> "Ok",
                  emitted |-> <<SignatureVerifiedEvent(o.ciphertexts[1],
                                                       to_le_bytes(o.nonce, NONCE_LEN))>>]
        ELSE [result |-> "AbortedComputation", emitted |-> <<>>]

\* ------------------------------------------------------------------------
\* Actions of the agentic_wallet_mxe program
\* ------------------------------------------------------------------------
Submit(op, computation_offset, r) ==
    /\ ret' = r.result
    /\ status' = r.led.status
    /\ computation' = r.led.computation
    /\ sign_pda_bump' = IF r.bump_written THEN SignPdaBump ELSE sign_pda_bump
    /\ accepted_count' = IF r.result = "Ok"
                         THEN [accepted_count EXCEPT ![computation_offset] = @ + 1]
                         ELSE accepted_count
    /\ first_submitted' = IF r.result = "Ok" /\ first_submitted = 0
                          THEN computation_offset
                          ELSE first_submitted
    /\ UNCHANGED <<events, callback_log, key_shares, call, vault_vars>>

SignTransaction(computation_offset, message) ==
    Submit("sign_transaction", computation_offset,
           sign_transaction(Ledger, computation_offset, message))

VerifyAgentSignature(computation_offset, one_time_pub_key, one_time_nonce) ==
    Submit("verify_agent_signature", computation_offset,
           verify_agent_signature(Ledger, computation_offset, one_time_pub_key,
                                  one_time_nonce, VerifyingKeyLo, VerifyingKeyHi,
                                  Fill(MSG_LEN, 0), AgentSignature,
                                  ObserverPubKey, ObserverNonce))

\* the cluster takes a queued computation from the mempool into execution
Dispatch(computation_offset) ==
    /\ status[computation_offset] = "Queued"
    /\ status' = [status EXCEPT ![computation_offset] = "Dispatched"]
    /\ UNCHANGED <<sign_pda_bump, computation, events, callback_log,
                   accepted_count, first_submitted, ret, key_shares, call, vault_vars>>

\* a result for the computation arrives: the registered callback runs once,
\* a result for a request that is not Dispatched is dropped
Deliver(op, computation_offset, output, r) ==
    IF deliverable(status, computation_offset)
    THEN /\ computation[computation_offset].callback = op
         /\ status' = settle(Ledger, computation_offset, r.result).status
         /\ computation' = settle(Ledger, computation_offset, r.result).computation
         /\ events' = [events EXCEPT ![computation_offset] = @ \o r.emitted]
         /\ callback_log' = [callback_log EXCEPT ![computation_offset] =
                                IF verify_output(output, ClusterKey).ok
                                THEN "verified" ELSE "unverified"]
         /\ ret' = r.result
         /\ UNCHANGED <<sign_pda_bump, accepted_count, first_submitted, key_shares, call,
                        vault_vars>>
    ELSE /\ ret' = "Dropped"
         /\ UNCHANGED <<sign_pda_bump, computation, status, events, callback_log,
                        accepted_count, first_submitted, key_shares, call, vault_vars>>

SignTransactionCallback(computation_offset, output) ==
    Deliver("sign_transaction_callback", computation_offset, output,
            sign_transaction_callback(output))

VerifyAgentSignatureCallback(computation_offset, output) ==
    Deliver("verify_agent_signature_callback", computation_offset, output,
            verify_agent_signature_callback(output))

InitMxe ==
    /\ sign_pda_bump = 0
    /\ computation = [o \in Offsets |-> NoComp]
    /\ status = [o \in Offsets |-> "None"]
    /\ events = [o \in Offsets |-> <<>>]
    /\ callback_log = [o \in Offsets |-> "none"]
    /\ accepted_count = [o \in Offsets |-> 0]
    /\ first_submitted = 0
    /\ ret = "none"
    /\ key_shares = NoShares
    /\ call = NoCall
    /\ InitVaultAccounts

NextMxe ==
    \/ \E o \in Offsets, m \in Messages : SignTransaction(o, m)
    \/ \E o \in Offsets, k \in OneTimePubKeys, n \in OneTimeNonces :
           VerifyAgentSignature(o, k, n)
    \/ \E o \in Offsets : Dispatch(o)
    \/ \E o \in Offsets, out \in SignOutputs : SignTransactionCallback(o, out)
    \/ \E o \in Offsets, out \in VerifyOutputs : VerifyAgentSignatureCallback(o, out)

Spec == InitMxe /\ [][NextMxe]_vars

\* the cluster eventually picks up every queued computation and eventually
\* delivers a result (or an abort) for every computation it executes
FairSpec ==
    /\ Spec
    /\ \A o \in Offsets : WF_vars(Dispatch(o))
    /\ \A o \in Offsets :
           WF_vars(\/ \E out \in SignOutputs : SignTransactionCallback(o, out)
                   \/ \E out \in VerifyOutputs : VerifyAgentSignatureCallback(o, out))

\* ------------------------------------------------------------------------
\* Properties of the request protocol
\* ------------------------------------------------------------------------

\* C1: a delivered result is verified against the cluster before its payload
\* is used: at the step that hands an unverified result to the callback, the
\* callback returns AbortedComputation, the request becomes Aborted and no
\* event is emitted; a request whose result failed verification never has an
\* event in its log.
C1_VerifyBeforeUse ==
    /\ [][\A o \in Offsets :
            (callback_log[o] = "none" /\ callback_log'[o] = "unverified")
            => /\ ret' = "AbortedComputation"
               /\ status'[o] = "Aborted"
               /\ events' = events]_vars
    /\ [](\A o \in Offsets :
            callback_log[o] = "unverified"
            => (status[o] = "Aborted" /\ events[o] = <<>>))

C1_Witness ==
    \E o \in Offsets :
        /\ callback_log[o] = "unverified"
        /\ status[o] = "Aborted"
        /\ ret = "AbortedComputation"

\* C2: delivery is idempotent per request identifier: once a request is
\* Completed or Aborted, a further delivery for it changes nothing but the
\* returned value, and the callbacks of one request emit at most one event.
C2_DeliverIdempotent ==
    /\ [][\A o \in Offsets :
            status[o] \in Terminal
            => /\ status'[o] = status[o]
               /\ events'[o] = events[o]
               /\ callback_log'[o] = callback_log[o]
               /\ computation'[o] = computation[o]]_vars
    /\ [](\A o \in Offsets : Len(events[o]) <= 1)

C2_Witness ==
    /\ ret = "Dropped"
    /\ \A o \in Offsets : status[o] = "Completed" /\ Len(events[o]) = 1

\* C3: at most one computation is in flight per request identifier: a submit
\* for an offset that is already known is never accepted (it returns
\* DuplicateId and changes nothing), and the arguments and callback stored for
\* a request stay as the first submit stored them while it is in flight.
C3_AtMostOneInFlight ==
    /\ [][/\ \A o \in Offsets :
               status[o] # "None"
               => /\ accepted_count'[o] = accepted_count[o]
                  /\ (status'[o] \in InFlight => computation'[o] = computation[o])
          /\ (ret # "DuplicateId" /\ ret' = "DuplicateId"
              => UNCHANGED <<sign_pda_bump, computation, status, events,
                             callback_log, accepted_count, first_submitted>>)]_vars
    /\ [](\A o \in Offsets : accepted_count[o] <= 1)

C3_Witness ==
    /\ ret = "DuplicateId"
    /\ \E o \in Offsets : status[o] \in InFlight /\ accepted_count[o] = 1

\* C4: a request moves only along Queued -> Dispatched -> {Completed, Aborted}:
\* no state is skipped or revisited, a result is accepted only for a
\* Dispatched request, and the terminal states are never left.
C4_Transitions ==
    [][\A o \in Offsets :
          /\ \/ status'[o] = status[o]
             \/ <<status[o], status'[o]>> \in
                    { <<"None", "Queued">>, <<"Queued", "Dispatched">>,
                      <<"Dispatched", "Completed">>, <<"Dispatched", "Aborted">> }
          /\ (callback_log'[o] # callback_log[o]
              => status[o] = "Dispatched" /\ status'[o] \in Terminal)]_vars

C4_Witness ==
    \E o, j \in Offsets :
        /\ status[o] = "Completed"
        /\ status[j] = "Queued"

\* C5: under fairness of the cluster (it dispatches what is queued and
\* delivers a result or an abort for what it executes), every Dispatched
\* request eventually reaches Completed or Aborted.
C5_EventuallyResolved ==
    \A o \in Offsets : (status[o] = "Dispatched") ~> (status[o] \in Terminal)

C5_Witness ==
    \E o \in Offsets : status[o] \in Terminal /\ callback_log[o] # "none"

\* C6: requests with distinct identifiers are independent: the abort of one
\* request leaves the state, stored arguments and events of every other
\* request unchanged, and whatever happened to the others, a Dispatched
\* request can still be completed by a verified result.
CanComplete(o) ==
    /\ \/ \E out \in SignOutputs : SignTransactionCallback(o, out)
       \/ \E out \in VerifyOutputs : VerifyAgentSignatureCallback(o, out)
    /\ status'[o] = "Completed"

C6_Independent ==
    /\ [][\A o \in Offsets :
            (status[o] = "Dispatched" /\ status'[o] = "Aborted")
            => \A j \in Offsets \ {o} :
                   /\ status'[j] = status[j]
                   /\ computation'[j] = computation[j]
                   /\ events'[j] = events[j]
                   /\ callback_log'[j] = callback_log[j]]_vars
    /\ [](\A o \in Offsets : status[o] = "Dispatched" => ENABLED CanComplete(o))

C6_Witness ==
    \E o, j \in Offsets :
        /\ first_submitted = o
        /\ status[o] = "Dispatched"
        /\ status[j] = "Aborted"

\* C7: an aborted request releases its slot and never yields signature
\* bytes: an Aborted request has no entry in the request ledger and no event
\* in its log.
C7_AbortReleases ==
    \A o \in Offsets :
        status[o] = "Aborted" => (computation[o] = NoComp /\ events[o] = <<>>)

C7_Witness ==
    \E o, j \in Offsets :
        /\ status[o] = "Aborted"
        /\ status[j] = "Completed"
        /\ Len(events[j]) = 1

\* the one-time encryption material of a queued verify_agent_signature
\* request: the x25519 public key and the nonce at the head of its arguments
EncryptionMaterial(o) == <<computation[o].args[1].v, computation[o].args[2].v>>

\* C14: encryption material is bound to one request: no two accepted
\* requests carry the same (ephemeral public key, nonce) pair.
C14_FreshEncryptionMaterial ==
    \A o, j \in Offsets :
        (/\ o # j
         /\ status[o] \in InFlight
         /\ status[j] \in InFlight
         /\ computation[o].callback = "verify_agent_signature_callback"
         /\ computation[j].callback = "verify_agent_signature_callback")
        => EncryptionMaterial(o) # EncryptionMaterial(j)

\* C22: on a verified sign_transaction result the signature emitted in
\* TransactionSignedEvent is exactly the output's 32-byte R followed by its
\* 32-byte S, byte for byte, 64 bytes in all, and exactly one such event is
\* emitted by that callback invocation.
C22_SignatureIsRThenS ==
    /\ [](\A out \in SignOutputs :
            verify_output(out, ClusterKey).ok
            => LET emitted == sign_transaction_callback(out).emitted
               IN  /\ Len(emitted) = 1
                   /\ emitted[1].name = "TransactionSignedEvent"
                   /\ Len(emitted[1].signature) = 64
                   /\ SubSeq(emitted[1].signature, 1, 32) = out.payload.field_0
                   /\ SubSeq(emitted[1].signature, 33, 64) = out.payload.field_1)
    /\ [][\A o \in Offsets, out \in SignOutputs :
             (/\ SignTransactionCallback(o, out)
              /\ status[o] = "Dispatched"
              /\ verify_output(out, ClusterKey).ok)
             => /\ ret' = "Ok"
                /\ events'[o] =
                       events[o] \o
                       <<[name |-> "TransactionSignedEvent",
                          signature |-> out.payload.field_0 \o out.payload.field_1]>>]_vars

\* a verified result with distinct R and S bytes has been delivered and its
\* one event is in the log
C22_Witness ==
    \E o \in Offsets :
        /\ status[o] = "Completed"
        /\ callback_log[o] = "verified"
        /\ Len(events[o]) = 1
        /\ events[o][1].name = "TransactionSignedEvent"
        /\ events[o][1].signature = Ramp(MSG_LEN) \o Fill(MSG_LEN, 9)

\* ------------------------------------------------------------------------
\* circuits: Enc<Owner, T> values
\* ------------------------------------------------------------------------
Enc(owner, value) == [owner |-> owner, value |-> value]

to_arcis(enc) == enc.value

from_arcis(owner, value) == Enc(owner, value)

Keys == {11, 12}

AgentPubKeys == {"agent_a", "agent_b"}

NodeCounts == 0..MaxNodes

Thresholds == 0..(MaxNodes + 1)

Nodes == 0..(MaxNodes - 1)

Actions == 0..(VALID_ACTION_MAX + 1)

Amounts == 0..MaxAmount

TokenIds == {1}

AgentIds == {1}

\* ------------------------------------------------------------------------
\* circuits: confidential instructions
\* ------------------------------------------------------------------------
distribute_key(encrypted_key, threshold, total_nodes) ==
    LET key == to_arcis(encrypted_key)
        shares == <<>>
    IN  [status |-> "Ok", shares |-> shares]

threshold_sign(request, agent_pubkey) ==
    LET req == to_arcis(request)
        signature == Fill(SIG_LEN, 0)
    IN  [status |-> "Ok", output |-> from_arcis(agent_pubkey, signature)]

execute_encrypted_trade(trade, agent_pubkey) ==
    LET instruction == to_arcis(trade)
        signed_tx == Fill(SIG_LEN, 0)
    IN  [status |-> "Ok", output |-> from_arcis(agent_pubkey, signed_tx)]

\* the contributions a signing round can draw on: the shares held by the
\* nodes that take part in the round
Contributions(responding) ==
    { i \in 1..Len(key_shares.shares) : key_shares.shares[i].node_index \in responding }

DistinctIndices(responding) ==
    { key_shares.shares[i].node_index : i \in Contributions(responding) }

\* ------------------------------------------------------------------------
\* Actions of the circuits
\* ------------------------------------------------------------------------
DistributeKey(key, threshold, total_nodes) ==
    LET r == distribute_key(Enc("shared", key), threshold, total_nodes)
    IN  /\ call' = [op |-> "distribute_key",
                    args |-> [threshold |-> threshold, total_nodes |-> total_nodes],
                    result |-> r]
        /\ key_shares' = [threshold |-> threshold, total_nodes |-> total_nodes,
                          shares |-> r.shares]
        /\ UNCHANGED <<mxe_vars, vault_vars>>

ThresholdSign(tx_hash, agent_id, agent_pubkey, responding) ==
    LET r == threshold_sign(Enc("shared", [tx_hash |-> tx_hash, agent_id |-> agent_id]),
                            agent_pubkey)
    IN  /\ call' = [op |-> "threshold_sign",
                    args |-> [tx_hash |-> tx_hash, agent_pubkey |-> agent_pubkey,
                              responding |-> responding],
                    result |-> r]
        /\ UNCHANGED <<key_shares, mxe_vars, vault_vars>>

ExecuteEncryptedTrade(action, amount, token_id, agent_pubkey) ==
    LET r == execute_encrypted_trade(
                 Enc("shared", [action |-> action, amount |-> amount,
                                token_id |-> token_id]),
                 agent_pubkey)
    IN  /\ call' = [op |-> "execute_encrypted_trade",
                    args |-> [action |-> action, amount |-> amount,
                              token_id |-> token_id, agent_pubkey |-> agent_pubkey],
                    result |-> r]
        /\ UNCHANGED <<key_shares, mxe_vars, vault_vars>>

InitCircuit == InitMxe

NextCircuit ==
    \/ \E k \in Keys, t \in Thresholds, n \in NodeCounts : DistributeKey(k, t, n)
    \/ \E m \in Messages, a \in AgentIds, pk \in AgentPubKeys, resp \in SUBSET Nodes :
           ThresholdSign(m, a, pk, resp)
    \/ \E a \in Actions, amt \in Amounts, tok \in TokenIds, pk \in AgentPubKeys :
           ExecuteEncryptedTrade(a, amt, tok, pk)

SpecCircuit == InitCircuit /\ [][NextCircuit]_vars

\* ------------------------------------------------------------------------
\* Properties of the circuits
\* ------------------------------------------------------------------------
NoOutput == [none |-> TRUE]

InvalidInstruction(args) ==
    args.action \notin 0..VALID_ACTION_MAX \/ args.amount = 0

\* C8: execute_encrypted_trade produces a signature only for a valid
\* instruction: for an action outside {0,1,2,3} or an amount of 0 the call
\* ends with InvalidInstruction and returns no signature.
C8_InvalidTradeAborts ==
    (call.op = "execute_encrypted_trade" /\ InvalidInstruction(call.args))
    => (call.result.status = "InvalidInstruction" /\ call.result.output = NoOutput)

\* C9: a signing round releases a signature only with a quorum: when fewer
\* than t contributions with distinct node indices are available the round
\* aborts and returns no signature at all.
C9_QuorumOrAbort ==
    (call.op = "threshold_sign"
        /\ Cardinality(DistinctIndices(call.args.responding)) < key_shares.threshold)
    => (call.result.status = "Aborted" /\ call.result.output = NoOutput)

\* C10: distribute_key validates its parameters first: a call with
\* threshold = 0 or threshold > total_nodes does not return normally.
C10_InvalidThresholdRejected ==
    (call.op = "distribute_key"
        /\ (call.args.threshold = 0 \/ call.args.threshold > call.args.total_nodes))
    => call.result.status # "Ok"

\* C11: for every valid (t, n) with 1 <= t <= n, distribute_key returns
\* exactly n key shares, one per node, with pairwise distinct evaluation
\* points, each carrying the threshold t.
C11_OneSharePerNode ==
    (call.op = "distribute_key"
        /\ 1 <= call.args.threshold
        /\ call.args.threshold <= call.args.total_nodes)
    => LET shares == call.result.shares
       IN  /\ call.result.status = "Ok"
           /\ Len(shares) = call.args.total_nodes
           /\ \A i, j \in 1..Len(shares) :
                  i # j => shares[i].node_index # shares[j].node_index
           /\ \A i \in 1..Len(shares) : shares[i].threshold = call.args.threshold

\* Ed25519 as the circuits use it (MXESigningKey::sign, VerifyingKey::verify),
\* idealised: the signature is a function of the secret key and the message,
\* and verification accepts exactly the signature of the matching secret key.
public_key(secret_key) == secret_key + 100

ed25519_sign(secret_key, message) ==
    [i \in 1..SIG_LEN |->
        IF i <= MSG_LEN THEN secret_key ELSE (message[i - MSG_LEN] + secret_key) % 256]

ed25519_verify(verifying_key, message, signature) ==
    \E k \in Keys : public_key(k) = verifying_key /\ signature = ed25519_sign(k, message)

\* C13: sign/verify round trip: the signature a signing round returns for a
\* message verifies against the wallet's public key for that message (stated
\* here for the public key of whichever key was distributed), and does not
\* verify for a different message.
C13_SignVerifyRoundTrip ==
    (call.op = "threshold_sign"
        /\ 1 <= key_shares.threshold
        /\ key_shares.threshold <= key_shares.total_nodes)
    => /\ call.result.status = "Ok"
       /\ \E k \in Keys :
              /\ ed25519_verify(public_key(k), call.args.tx_hash,
                                call.result.output.value)
              /\ \A m \in Messages \ {call.args.tx_hash} :
                     ~ed25519_verify(public_key(k), m, call.result.output.value)

\* ------------------------------------------------------------------------
\* agent-vault: instructions
\* ------------------------------------------------------------------------
\* deposits are also tried with the largest amount a u64 can hold
DepositAmounts == Amounts \cup {U64_MAX}

VaultProgram == [vault |-> vault, agent_state |-> agent_state, lamports |-> lamports]

Err(st, code) == [result |-> code, st |-> st]

Ok(st) == [result |-> "Ok", st |-> st]

checked_add(a, b) == IF a + b > U64_MAX THEN [some |-> FALSE, v |-> 0]
                     ELSE [some |-> TRUE, v |-> a + b]

checked_sub(a, b) == IF a < b THEN [some |-> FALSE, v |-> 0]
                     ELSE [some |-> TRUE, v |-> a - b]

\* system_instruction::transfer executed by the system program
system_transfer(lam, from, to, amount) ==
    IF lam[from] < amount \/ ~checked_add(lam[to], amount).some
    THEN [ok |-> FALSE, lam |-> lam]
    ELSE [ok |-> TRUE, lam |-> [lam EXCEPT ![from] = @ - amount, ![to] = @ + amount]]

\* #[account(init, payer = owner, space = ..)]: the payer funds a new account
init_account(lam, payer, key, rent) == system_transfer(lam, payer, key, rent)

initialize_vault(st, owner) ==
    IF st.vault.initialized THEN Err(st, "AccountAlreadyInUse")
    ELSE LET created == init_account(st.lamports, owner, VaultKey, VaultRent)
         IN  IF ~created.ok THEN Err(st, "InsufficientLamports")
             ELSE Ok([st EXCEPT !.lamports = created.lam,
                                !.vault = [initialized |-> TRUE, owner |-> owner,
                                           balance |-> 0]])

deposit_no_credit(st, owner, amount) ==
    IF ~st.vault.initialized THEN Err(st, "AccountNotInitialized")
    ELSE IF st.vault.owner # owner THEN Err(st, "Unauthorized")
    ELSE LET moved == system_transfer(st.lamports, owner, VaultKey, amount)
             sum == checked_add(st.vault.balance, amount)
         IN  IF ~moved.ok THEN Err(st, "InsufficientLamports")
             ELSE IF ~sum.some THEN Err(st, "Overflow")
             ELSE Ok([st EXCEPT !.lamports = moved.lam])

\* variant: the balance is added up before the lamports are transferred
deposit_add_first(st, owner, amount) ==
    IF ~st.vault.initialized THEN Err(st, "AccountNotInitialized")
    ELSE IF st.vault.owner # owner THEN Err(st, "Unauthorized")
    ELSE LET moved == system_transfer(st.lamports, owner, VaultKey, amount)
             sum == checked_add(st.vault.balance, amount)
         IN  IF ~sum.some THEN Err(st, "Overflow")
             ELSE IF ~moved.ok THEN Err(st, "InsufficientLamports")
             ELSE Ok([st EXCEPT !.lamports = moved.lam, !.vault.balance = sum.v])

deposit(st, owner, amount) ==
    IF ~st.vault.initialized THEN Err(st, "AccountNotInitialized")
    ELSE IF st.vault.owner # owner THEN Err(st, "Unauthorized")
    ELSE LET moved == system_transfer(st.lamports, owner, VaultKey, amount)
             sum == checked_add(st.vault.balance, amount)
         IN  IF ~moved.ok THEN Err(st, "InsufficientLamports")
             ELSE IF ~sum.some THEN Err(st, "Overflow")
             ELSE Ok([st EXCEPT !.lamports = moved.lam, !.vault.balance = sum.v])

withdraw_no_balance_check(st, owner, amount) ==
    IF ~st.vault.initialized THEN Err(st, "AccountNotInitialized")
    ELSE IF st.vault.owner # owner THEN Err(st, "Unauthorized")
    ELSE LET debit == checked_sub(st.lamports[VaultKey], amount)
             credit == checked_add(st.lamports[owner], amount)
             rest == checked_sub(st.vault.balance, amount)
         IN  IF ~debit.some \/ ~credit.some THEN Err(st, "ArithmeticOverflow")
             ELSE IF ~rest.some THEN Err(st, "Underflow")
             ELSE Ok([st EXCEPT !.lamports[VaultKey] = debit.v,
                                !.lamports[owner] = credit.v,
                                !.vault.balance = rest.v])

withdraw(st, owner, amount) ==
    IF ~st.vault.initialized THEN Err(st, "AccountNotInitialized")
    ELSE IF st.vault.owner # owner THEN Err(st, "Unauthorized")
    ELSE IF ~(st.vault.balance >= amount) THEN Err(st, "InsufficientFunds")
    ELSE LET debit == checked_sub(st.lamports[VaultKey], amount)
             credit == checked_add(st.lamports[owner], amount)
             rest == checked_sub(st.vault.balance, amount)
         IN  IF ~debit.some \/ ~credit.some THEN Err(st, "ArithmeticOverflow")
             ELSE IF ~rest.some THEN Err(st, "Underflow")
             ELSE Ok([st EXCEPT !.lamports[VaultKey] = debit.v,
                                !.lamports[owner] = credit.v,
                                !.vault.balance = rest.v])

initialize_agent(st, owner, now) ==
    IF st.agent_state.initialized THEN Err(st, "AccountAlreadyInUse")
    ELSE LET created == init_account(st.lamports, owner, AgentStateKey, AgentStateRent)
         IN  IF ~created.ok THEN Err(st, "InsufficientLamports")
             ELSE Ok([st EXCEPT !.lamports = created.lam,
                                !.agent_state =
                                    [initialized |-> TRUE, owner |-> owner,
                                     risk_score |-> INITIAL_RISK_SCORE,
                                     execution_enabled |-> TRUE,
                                     last_action_timestamp |-> now]])

evaluate_agent_action_any_signer(st, owner, risk_score) ==
    IF ~st.agent_state.initialized THEN Err(st, "AccountNotInitialized")
    ELSE IF ~(risk_score <= MAX_RISK_SCORE) THEN Err(st, "InvalidRiskScore")
    ELSE Ok([st EXCEPT !.agent_state.risk_score = risk_score,
                       !.agent_state.execution_enabled = (risk_score <= RISK_LIMIT)])

evaluate_agent_action(st, owner, risk_score) ==
    IF ~st.agent_state.initialized THEN Err(st, "AccountNotInitialized")
    ELSE IF ~(risk_score <= MAX_RISK_SCORE) THEN Err(st, "InvalidRiskScore")
    ELSE IF st.agent_state.owner # owner THEN Err(st, "Unauthorized")
    ELSE Ok([st EXCEPT !.agent_state.risk_score = risk_score,
                       !.agent_state.execution_enabled = (risk_score <= RISK_LIMIT)])

gated_withdraw_no_stamp(st, owner, amount, now) ==
    LET state == st.agent_state
    IN  IF ~st.vault.initialized \/ ~state.initialized
        THEN Err(st, "AccountNotInitialized")
        ELSE IF state.owner # owner THEN Err(st, "Unauthorized")
        ELSE IF ~state.execution_enabled THEN Err(st, "ExecutionBlocked")
        ELSE IF ~(state.risk_score <= RISK_LIMIT) THEN Err(st, "HighRisk")
        ELSE IF ~(now - state.last_action_timestamp < TIMEOUT_SECS)
        THEN Err(st, "ExecutionTimeout")
        ELSE IF ~(st.vault.balance >= amount) THEN Err(st, "InsufficientFunds")
        ELSE LET debit == checked_sub(st.lamports[VaultKey], amount)
                 credit == checked_add(st.lamports[owner], amount)
                 rest == checked_sub(st.vault.balance, amount)
             IN  IF ~debit.some \/ ~credit.some THEN Err(st, "ArithmeticOverflow")
                 ELSE IF ~rest.some THEN Err(st, "Underflow")
                 ELSE Ok([st EXCEPT !.lamports[VaultKey] = debit.v,
                                    !.lamports[owner] = credit.v,
                                    !.vault.balance = rest.v])

gated_withdraw_no_timeout(st, owner, amount, now) ==
    LET state == st.agent_state
    IN  IF ~st.vault.initialized \/ ~state.initialized
        THEN Err(st, "AccountNotInitialized")
        ELSE IF state.owner # owner THEN Err(st, "Unauthorized")
        ELSE IF ~state.execution_enabled THEN Err(st, "ExecutionBlocked")
        ELSE IF ~(state.risk_score <= RISK_LIMIT) THEN Err(st, "HighRisk")
        ELSE IF ~(st.vault.balance >= amount) THEN Err(st, "InsufficientFunds")
        ELSE LET debit == checked_sub(st.lamports[VaultKey], amount)
                 credit == checked_add(st.lamports[owner], amount)
                 rest == checked_sub(st.vault.balance, amount)
             IN  IF ~debit.some \/ ~credit.some THEN Err(st, "ArithmeticOverflow")
                 ELSE IF ~rest.some THEN Err(st, "Underflow")
                 ELSE Ok([st EXCEPT !.lamports[VaultKey] = debit.v,
                                    !.lamports[owner] = credit.v,
                                    !.vault.balance = rest.v,
                                    !.agent_state.last_action_timestamp = now])

gated_withdraw(st, owner, amount, now) ==
    LET state == st.agent_state
    IN  IF ~st.vault.initialized \/ ~state.initialized
        THEN Err(st, "AccountNotInitialized")
        ELSE IF state.owner # owner THEN Err(st, "Unauthorized")
        ELSE IF ~state.execution_enabled THEN Err(st, "ExecutionBlocked")
        ELSE IF ~(state.risk_score <= RISK_LIMIT) THEN Err(st, "HighRisk")
        ELSE IF ~(now - state.last_action_timestamp < TIMEOUT_SECS)
        THEN Err(st, "ExecutionTimeout")
        ELSE IF ~(st.vault.balance >= amount) THEN Err(st, "InsufficientFunds")
        ELSE LET debit == checked_sub(st.lamports[VaultKey], amount)
                 credit == checked_add(st.lamports[owner], amount)
                 rest == checked_sub(st.vault.balance, amount)
             IN  IF ~debit.some \/ ~credit.some THEN Err(st, "ArithmeticOverflow")
                 ELSE IF ~rest.some THEN Err(st, "Underflow")
                 ELSE Ok([st EXCEPT !.lamports[VaultKey] = debit.v,
                                    !.lamports[owner] = credit.v,
                                    !.vault.balance = rest.v,
                                    !.agent_state.last_action_timestamp = now])

\* ------------------------------------------------------------------------
\* agent-vault: actions
\* ------------------------------------------------------------------------
\* one transaction: the accounts take the instruction's result, and nothing
\* is written when it returns an error
Transaction(instruction, amount, r) ==
    /\ vault' = r.st.vault
    /\ agent_state' = r.st.agent_state
    /\ lamports' = r.st.lamports
    /\ vault_ret' = [instruction |-> instruction, amount |-> amount, result |-> r.result]
    /\ UNCHANGED <<clock, key_shares, call, mxe_vars>>

InitializeVault(owner) ==
    /\ Transaction("initialize_vault", 0, initialize_vault(VaultProgram, owner))
    /\ UNCHANGED <<deposited, withdrawn>>

Deposit(owner, amount) ==
    LET r == deposit(VaultProgram, owner, amount)
    IN  /\ r.result = "Ok" => deposited + amount <= MaxDeposited
        /\ Transaction("deposit", amount, r)
        /\ deposited' = IF r.result = "Ok" THEN deposited + amount ELSE deposited
        /\ UNCHANGED withdrawn

Withdraw(owner, amount) ==
    LET r == withdraw(VaultProgram, owner, amount)
    IN  /\ Transaction("withdraw", amount, r)
        /\ withdrawn' = IF r.result = "Ok" THEN withdrawn + amount ELSE withdrawn
        /\ UNCHANGED deposited

InitializeAgent(owner) ==
    /\ Transaction("initialize_agent", 0, initialize_agent(VaultProgram, owner, clock))
    /\ UNCHANGED <<deposited, withdrawn>>

EvaluateAgentAction(owner, risk_score) ==
    /\ Transaction("evaluate_agent_action", 0,
                   evaluate_agent_action(VaultProgram, owner, risk_score))
    /\ UNCHANGED <<deposited, withdrawn>>

GatedWithdraw(owner, amount) ==
    LET r == gated_withdraw(VaultProgram, owner, amount, clock)
    IN  /\ Transaction("gated_withdraw", amount, r)
        /\ withdrawn' = IF r.result = "Ok" THEN withdrawn + amount ELSE withdrawn
        /\ UNCHANGED deposited

\* the cluster's clock advances
Tick(t) ==
    /\ t > clock
    /\ clock' = t
    /\ UNCHANGED <<vault, agent_state, lamports, vault_ret, deposited, withdrawn,
                   key_shares, call, mxe_vars>>

InitVault == InitMxe

NextVault ==
    \/ \E u \in Users : InitializeVault(u)
    \/ \E u \in Users, a \in DepositAmounts : Deposit(u, a)
    \/ \E u \in Users, a \in Amounts : Withdraw(u, a)
    \/ \E u \in Users : InitializeAgent(u)
    \/ \E u \in Users, r \in RiskScores : EvaluateAgentAction(u, r)
    \/ \E u \in Users, a \in Amounts : GatedWithdraw(u, a)
    \/ \E t \in Times : Tick(t)

SpecVault == InitVault /\ [][NextVault]_vars

\* ------------------------------------------------------------------------
\* agent-vault: properties
\* ------------------------------------------------------------------------
\* C15: funds leave the vault only to the vault's owner: every successful
\* withdraw or gated_withdraw that decreases vault.balance is signed by the
\* signer equal to vault.owner.
C15_OnlyVaultOwnerWithdraws ==
    [][\A u \in Users, a \in Amounts :
          (/\ Withdraw(u, a) \/ GatedWithdraw(u, a)
           /\ vault_ret'.result = "Ok"
           /\ vault'.balance < vault.balance)
          => u = vault.owner]_vars

\* C16: gated_withdraw succeeds only if every gate holds at call time
\* (signer = agent_state.owner, execution_enabled, risk_score <= 80,
\* now - last_action_timestamp < 3600, vault.balance >= amount); otherwise it
\* returns the error of the first gate that fails and leaves vault.balance,
\* last_action_timestamp and all lamports unchanged; on success it decreases
\* the balance by amount and sets last_action_timestamp to now.
C16_GatedWithdrawGates ==
    [][\A u \in Users, a \in Amounts :
          (GatedWithdraw(u, a) /\ vault.initialized /\ agent_state.initialized)
          => LET expected ==
                     IF u # agent_state.owner THEN "Unauthorized"
                     ELSE IF ~agent_state.execution_enabled THEN "ExecutionBlocked"
                     ELSE IF ~(agent_state.risk_score <= 80) THEN "HighRisk"
                     ELSE IF ~(clock - agent_state.last_action_timestamp < 3600)
                     THEN "ExecutionTimeout"
                     ELSE IF ~(vault.balance >= a) THEN "InsufficientFunds"
                     ELSE "Ok"
             IN  /\ vault_ret'.result = expected
                 /\ expected # "Ok" =>
                        /\ vault'.balance = vault.balance
                        /\ agent_state'.last_action_timestamp =
                               agent_state.last_action_timestamp
                        /\ lamports' = lamports
                 /\ expected = "Ok" =>
                        /\ vault'.balance = vault.balance - a
                        /\ agent_state'.last_action_timestamp = clock]_vars

\* a gated_withdraw of a positive amount has succeeded after the clock moved
C16_Witness ==
    /\ vault_ret.instruction = "gated_withdraw"
    /\ vault_ret.result = "Ok"
    /\ withdrawn > 0
    /\ clock > 0
    /\ agent_state.last_action_timestamp = clock

\* C17: in every reachable AgentState risk_score <= 100 and execution_enabled
\* is true exactly when risk_score <= 80; evaluate_agent_action with
\* risk_score > 100 or from a signer who is not the owner fails and leaves the
\* state unchanged.
C17_RiskInvariant ==
    /\ [](agent_state.initialized =>
             /\ agent_state.risk_score <= 100
             /\ agent_state.execution_enabled <=> agent_state.risk_score <= 80)
    /\ [][\A u \in Users, r \in RiskScores :
             (/\ EvaluateAgentAction(u, r)
              /\ agent_state.initialized
              /\ r > 100 \/ u # agent_state.owner)
             => /\ vault_ret'.result \in {"InvalidRiskScore", "Unauthorized"}
                /\ agent_state' = agent_state]_vars

\* the owner has raised the score above the limit, and a later call with a
\* score over 100 has been rejected
C17_Witness ==
    /\ agent_state.initialized
    /\ agent_state.risk_score > 80
    /\ ~agent_state.execution_enabled
    /\ vault_ret.instruction = "evaluate_agent_action"
    /\ vault_ret.result = "InvalidRiskScore"

\* the time window of the AgentState has run out
Locked ==
    /\ agent_state.initialized
    /\ clock - agent_state.last_action_timestamp >= 3600

\* C18 (as stated): once 3600 or more seconds have passed since
\* last_action_timestamp, every later gated_withdraw on that AgentState fails
\* with ExecutionTimeout.
C18_LockedFailsWithTimeout ==
    [][\A u \in Users, a \in Amounts :
          (GatedWithdraw(u, a) /\ Locked /\ vault.initialized)
          => vault_ret'.result = "ExecutionTimeout"]_vars

\* C18 (amended): the time window is a one-way lock. Once 3600 or more seconds
\* have passed since last_action_timestamp the AgentState stays locked: every
\* later gated_withdraw fails, with ExecutionTimeout when the signer is the
\* AgentState's owner and execution is enabled (the two gates checked before
\* the window), and last_action_timestamp is written by nothing but
\* initialize_agent and a successful gated_withdraw.
C18_OneWayLock ==
    /\ [][Locked => Locked']_vars
    /\ [][\A u \in Users, a \in Amounts :
             (GatedWithdraw(u, a) /\ Locked)
             => /\ vault_ret'.result # "Ok"
                /\ (/\ vault.initialized
                    /\ u = agent_state.owner
                    /\ agent_state.execution_enabled)
                   => vault_ret'.result = "ExecutionTimeout"]_vars
    /\ [][agent_state'.last_action_timestamp # agent_state.last_action_timestamp
          => \/ \E u \in Users : InitializeAgent(u)
             \/ \E u \in Users, a \in Amounts :
                    GatedWithdraw(u, a) /\ vault_ret'.result = "Ok"]_vars

\* the owner's gated_withdraw has been refused for the window while the vault
\* holds funds
C18_Witness ==
    /\ Locked
    /\ vault_ret.instruction = "gated_withdraw"
    /\ vault_ret.result = "ExecutionTimeout"
    /\ vault.balance > 0

C20_WithdrawNeverOverdraws ==
    /\ [][\A u \in Users, a \in Amounts :
             (Withdraw(u, a) /\ vault.initialized)
             => LET expected ==
                        IF u # vault.owner THEN "Unauthorized"
                        ELSE IF a > vault.balance THEN "InsufficientFunds"
                        ELSE "Ok"
                IN  /\ vault_ret'.result = expected
                    /\ expected # "Ok" =>
                           vault'.balance = vault.balance /\ lamports' = lamports
                    /\ expected = "Ok" =>
                           /\ vault'.balance = vault.balance - a
                           /\ lamports'[u] = lamports[u] + a]_vars
    /\ [](vault_ret.result # "Underflow")

\* the owner's attempt to take more than the balance has been refused
C20_Witness ==
    /\ vault_ret.instruction = "withdraw"
    /\ vault_ret.result = "InsufficientFunds"
    /\ vault.balance > 0
    /\ withdrawn > 0

\* a deposit by the vault's owner whose amount the 64-bit balance cannot hold
OverflowingDeposit(u, a) ==
    /\ vault.initialized
    /\ u = vault.owner
    /\ vault.balance + a > U64_MAX

\* C21 (as stated): a deposit whose amount would make vault.balance exceed
\* 2^64 - 1 fails with Overflow and leaves vault.balance unchanged.
C21_OverflowRejected ==
    [][\A u \in Users, a \in DepositAmounts :
          (Deposit(u, a) /\ OverflowingDeposit(u, a))
          => /\ vault_ret'.result = "Overflow"
             /\ vault'.balance = vault.balance]_vars

\* C21 (amended): deposit never wraps the 64-bit balance. A deposit whose
\* amount would make vault.balance exceed 2^64 - 1 fails and leaves
\* vault.balance and all lamports unchanged, but it fails in the lamport
\* transfer, which the owner cannot fund, so Overflow is never returned; a
\* successful deposit increases the balance by exactly amount.
C21_DepositNeverWraps ==
    /\ [](vault.balance <= U64_MAX /\ vault_ret.result # "Overflow")
    /\ [][\A u \in Users, a \in DepositAmounts :
             (vault_ret'.amount = a /\ Deposit(u, a))
             => /\ OverflowingDeposit(u, a) =>
                       /\ vault_ret'.result = "InsufficientLamports"
                       /\ vault'.balance = vault.balance
                       /\ lamports' = lamports
                /\ vault_ret'.result = "Ok" =>
                       vault'.balance = vault.balance + a]_vars

\* the owner's deposit of the largest u64 into a funded vault has been refused
C21_Witness ==
    /\ vault_ret.instruction = "deposit"
    /\ vault_ret.amount = U64_MAX
    /\ vault_ret.result = "InsufficientLamports"
    /\ vault.balance > 0

====
